---- MODULE Spec2Model ----
(***************************************************************************)
(* A model of the batch uploader of qdrant_quantization_benchmark          *)
(* (uploader.py): DataUploader.upload_batch, _prepare_points and           *)
(* _upload_with_retry, run against a remote collection whose upsert call   *)
(* either stores the whole batch or raises; of the collection manager      *)
(* (qdrant_manager.py); and of the latency and accuracy benchmarks         *)
(* (benchmarking.py).  Each component has its own specification; the       *)
(* variables of the other components stay as they are in it.               *)
(***************************************************************************)
EXTENDS Integers, Sequences, FiniteSets, TLC

(***************************************************************************)
(* Bounds of the model.                                                    *)
(***************************************************************************)
MaxN == 4
MaxBatchSize == 3
MaxRetriesBound == 4
MaxBackoff == 2
\* The most upsert calls the remote service fails within one upload.
MaxFailures == 4
\* The most operations one collection manager performs.
MaxOps == 2
\* Latency samples are whole milliseconds 1..MaxLatency, at most MaxSamples
\* of them in a sample handed to _calculate_metrics.
MaxLatency == 3
MaxSamples == 4
\* Point ids 1..MaxId in the result sets handed to the accuracy score.
MaxId == 7
\* A benchmark run has at most MaxQueries test queries.
MaxQueries == 3

(***************************************************************************)
(* Program constants.                                                      *)
(***************************************************************************)
ProgressInterval == 1000

VectorNames == {"dense", "text"}

\* The ways one client.upsert call can end: it returns, it raises
\* ResponseHandlingException (a timeout), or it raises anything else.
Outcomes == {"ok", "ResponseHandlingException", "OtherError"}

VARIABLES
    \* arguments of upload_batch and the UploadConfig
    dataset, embeddings, named_vector, vector_name, show_progress,
    batch_size, enable_retry, max_retries, initial_backoff,
    \* locals of upload_batch / _upload_with_retry
    pc, i, points, attempt, total_uploaded,
    \* what the caller and the remote service observe
    collection, calls, sleeps, done, progress, result, error,
    \* successive uploads of the same corpus
    run, prev

config == <<dataset, embeddings, named_vector, vector_name, show_progress,
            batch_size, enable_retry, max_retries, initial_backoff>>
locals == <<pc, i, points, attempt, total_uploaded>>
observed == <<collection, calls, sleeps, done, progress, result, error>>
uploaderVars == <<config, locals, observed, run, prev>>

VARIABLES
    \* the collection manager: the remote collections, and the last operation
    m_colls, m_before, m_op, m_prevop, m_log, m_result, m_count

managerVars == <<m_colls, m_before, m_op, m_prevop, m_log, m_result, m_count>>

VARIABLES
    \* _calculate_metrics and the accuracy score, applied to given inputs
    p_pc, p_samples, p_metrics, p_baseline, p_candidate, p_score

pureVars == <<p_pc, p_samples, p_metrics, p_baseline, p_candidate, p_score>>

VARIABLES
    \* PerformanceBenchmark: the operation and its arguments, the control
    \* point, loop indices, the remote queries issued so far, the samples of
    \* the running loop, the return value, and the size of each sample list
    \* that was reduced to statistics
    b_op, b_pc, b_fi, b_qi, b_queries, b_latencies, b_baseline_ids, b_scores,
    b_results, b_reduced, b_error

benchVars == <<b_op, b_pc, b_fi, b_qi, b_queries, b_latencies, b_baseline_ids,
               b_scores, b_results, b_reduced, b_error>>

vars == <<uploaderVars, managerVars, pureVars, benchVars>>

Min(a, b) == IF a <= b THEN a ELSE b

\* The j-th item of the corpus (0-based) and its precomputed embedding.
Item(j) == [id |-> j, title |-> "Item"]
Embedding(j) == <<j, j + 100>>

\* Python's seq[lo:hi] on a 0-based sequence.
Slice(seq, lo, hi) == SubSeq(seq, lo + 1, Min(hi, Len(seq)))

(***************************************************************************)
(* _prepare_points                                                         *)
(***************************************************************************)
PointIdWrong(start_id, idx) == idx
PointId(start_id, idx) == start_id + idx

VectorDataWrong(named, name, embedding) ==
    [kind |-> "array", value |-> embedding]
VectorData(named, name, embedding) ==
    IF named THEN [kind |-> "mapping", key |-> name, value |-> embedding]
             ELSE [kind |-> "array", value |-> embedding]

PreparePoints(batch_dataset, batch_embeddings, start_id, named, name) ==
    [idx0 \in 1..Min(Len(batch_dataset), Len(batch_embeddings)) |->
        [id      |-> PointId(start_id, idx0 - 1),
         vector  |-> VectorData(named, name, batch_embeddings[idx0]),
         payload |-> batch_dataset[idx0]]]

(***************************************************************************)
(* The remote collection: point id -> stored point.  An upsert stores      *)
(* every point of the call, replacing a stored point with the same id.     *)
(***************************************************************************)
Ids(ps) == {ps[k].id : k \in 1..Len(ps)}

LastWithId(ps, id) ==
    ps[CHOOSE k \in 1..Len(ps) :
          ps[k].id = id /\ \A k2 \in (k + 1)..Len(ps) : ps[k2].id # id]

Upsert(coll, ps) ==
    [id \in (DOMAIN coll) \cup Ids(ps) |->
        IF id \in Ids(ps) THEN LastWithId(ps, id) ELSE coll[id]]

EmptyCollection == [id \in {} |-> id]

(***************************************************************************)
(* _upload_with_retry: the retry decision and the wait before a retry.     *)
(* attempt is the 0-based loop variable of "for attempt in range(...)".    *)
(***************************************************************************)
HasAttempt(att, maxr) == att < maxr

\* range(max_retries) starts at 0 in every call of _upload_with_retry.
FirstAttemptCarried == attempt
FirstAttempt == 0

ShouldRetryEarly(att, maxr) == att < maxr - 2
ShouldRetryLate(att, maxr) == att < maxr
ShouldRetry(att, maxr) == att < maxr - 1

WaitTimeExponential(backoff, att) == backoff * (2 ^ att)
WaitTimeConstant(backoff, att) == backoff
WaitTime(backoff, att) == backoff * (att + 1)

\* Only ResponseHandlingException is caught by the except clause.
IsCaughtAny(outcome) == outcome # "ok"
IsCaught(outcome) == outcome = "ResponseHandlingException"

(***************************************************************************)
(* upload_batch: the batch slicing and the loop's bookkeeping.             *)
(***************************************************************************)
\* Line 50: the precondition of upload_batch.
SizeMismatchWrong(ds, es) == Len(ds) > Len(es)
SizeMismatch(ds, es) == Len(ds) # Len(es)

\* Line 58: range(0, len(dataset), batch_size) steps by batch_size.
NextOffsetWrong(offset, size) == offset + size + 1
NextOffsetStuck(offset, size) == offset
NextOffset(offset, size) == offset + size

\* Line 65: start_id=i, the batch's offset in the corpus.
StartIdContinued(offset) == offset + (run - 1) * Len(dataset)
StartId(offset) == offset

\* Line 70: the retry path is taken only when the configuration enables it.
UsesRetryAlways(enabled) == TRUE
UsesRetry(enabled) == enabled

BatchPoints(offset) ==
    PreparePoints(Slice(dataset, offset, offset + batch_size),
                  Slice(embeddings, offset, offset + batch_size),
                  StartId(offset), named_vector, vector_name)

\* Lines 76-79: the batch is counted and the loop moves to the next offset.
BatchDone(uploaded) ==
    /\ total_uploaded' = total_uploaded + uploaded
    /\ progress' = IF show_progress
                      /\ (total_uploaded + uploaded) % ProgressInterval = 0
                   THEN Append(progress, [kind |-> "progress",
                                          total |-> total_uploaded + uploaded])
                   ELSE progress
    /\ done' = Append(done, [offset |-> i, uploaded |-> uploaded])
    /\ i' = NextOffset(i, batch_size)
    /\ pc' = "loop"
    /\ UNCHANGED <<points, attempt, result, error>>

\* An exception leaves upload_batch: nothing after the failing call runs.
RaiseSwallowed(exc) ==
    /\ pc' = "loop"
    /\ error' = exc
    /\ i' = NextOffset(i, batch_size)
    /\ UNCHANGED <<points, attempt, total_uploaded, collection,
                   done, progress, result>>
Raise(exc) ==
    /\ pc' = "raised"
    /\ error' = exc
    /\ UNCHANGED <<i, points, attempt, total_uploaded, collection,
                   done, progress, result>>

Call(outcome) == [offset |-> i, points |-> points, outcome |-> outcome]

\* The outcomes the remote service may still produce for the next call.
IsFailure(c) == c.outcome # "ok"
NextOutcomes ==
    IF Len(SelectSeq(calls, IsFailure)) < MaxFailures THEN Outcomes ELSE {"ok"}

\* Lines 50-56: the size check, then the loop starts at offset 0.
UploadBatch ==
    /\ pc = "idle"
    /\ IF SizeMismatch(dataset, embeddings)
       THEN /\ pc' = "raised"
            /\ error' = "ValueError"
            /\ UNCHANGED <<i, total_uploaded>>
       ELSE /\ pc' = "loop"
            /\ i' = 0
            /\ total_uploaded' = 0
            /\ UNCHANGED error
    /\ UNCHANGED <<config, points, attempt, collection, calls, sleeps, done,
                   progress, result, run, prev>>

\* Lines 58-71 and 81-84: the next batch is prepared, or the loop is over
\* and the total is returned.
NextBatch ==
    /\ pc = "loop"
    /\ IF i < Len(dataset)
       THEN /\ points' = BatchPoints(i)
            /\ attempt' = FirstAttempt
            /\ pc' = IF UsesRetry(enable_retry) THEN "retry" ELSE "upsert"
            /\ UNCHANGED <<progress, result>>
       ELSE /\ pc' = "returned"
            /\ result' = total_uploaded
            /\ progress' = IF show_progress
                           THEN Append(progress, [kind |-> "uploaded",
                                                  total |-> total_uploaded])
                           ELSE progress
            /\ UNCHANGED <<points, attempt>>
    /\ UNCHANGED <<config, i, total_uploaded, collection, calls, sleeps, done,
                   error, run, prev>>

\* Lines 73-74: retry disabled, one upsert; its exception is not caught.
UpsertOnce ==
    /\ pc = "upsert"
    /\ \E outcome \in NextOutcomes :
          /\ calls' = Append(calls, Call(outcome))
          /\ IF outcome = "ok"
             THEN /\ collection' = Upsert(collection, points)
                  /\ BatchDone(Len(points))
             ELSE Raise(outcome)
    /\ UNCHANGED <<config, sleeps, run, prev>>

\* Lines 142-164: one iteration of the retry loop, with the sleep that
\* follows a caught failure; or the fall-through "return 0".
UploadWithRetry ==
    /\ pc = "retry"
    /\ IF HasAttempt(attempt, max_retries)
       THEN \E outcome \in NextOutcomes :
          /\ calls' = Append(calls, Call(outcome))
          /\ IF outcome = "ok"
             THEN /\ collection' = Upsert(collection, points)
                  /\ BatchDone(Len(points))
                  /\ UNCHANGED sleeps
             ELSE IF IsCaught(outcome) /\ ShouldRetry(attempt, max_retries)
             THEN /\ sleeps' = Append(sleeps,
                        [offset |-> i,
                         wait |-> WaitTime(initial_backoff, attempt)])
                  /\ attempt' = attempt + 1
                  /\ UNCHANGED <<pc, i, points, total_uploaded, collection,
                                 done, progress, result, error>>
             ELSE /\ Raise(outcome)
                  /\ UNCHANGED sleeps
       ELSE /\ BatchDone(0)
            /\ UNCHANGED <<collection, calls, sleeps>>
    /\ UNCHANGED <<config, run, prev>>

\* The batches of points the remote service accepted, in call order.
IsOk(c) == c.outcome = "ok"
Accepted(cs) == SelectSeq(cs, IsOk)

Groups(cs) == [k \in 1..Len(Accepted(cs)) |-> Accepted(cs)[k].points]

\* cli.py cmd_upload run again on the collection it filled before: the same
\* corpus and configuration go through upload_batch a second time.
UploadAgain ==
    /\ pc = "returned"
    /\ run = 1
    /\ run' = run + 1
    /\ prev' = [groups |-> Groups(calls), ids |-> DOMAIN collection,
                retried |-> Len(calls) > Len(Accepted(calls))]
    /\ pc' = "idle"
    /\ calls' = <<>>
    /\ sleeps' = <<>>
    /\ done' = <<>>
    /\ progress' = <<>>
    /\ result' = -1
    /\ UNCHANGED <<config, i, points, attempt, total_uploaded, collection,
                   error>>

CorpusOf(n) == [j \in 1..n |-> Item(j - 1)]
EmbeddingsOf(m) == [j \in 1..m |-> Embedding(j - 1)]

NoPrev == [groups |-> <<>>, ids |-> {}, retried |-> FALSE]

ConfigInit(Retries) ==
    /\ \E n \in 0..MaxN : dataset = CorpusOf(n)
    /\ \E m \in 0..MaxN : embeddings = EmbeddingsOf(m)
    /\ named_vector \in BOOLEAN
    /\ vector_name \in (IF named_vector THEN VectorNames ELSE {"dense"})
    /\ show_progress \in BOOLEAN
    /\ batch_size \in 1..MaxBatchSize
    /\ enable_retry \in BOOLEAN
    /\ max_retries \in Retries
    /\ initial_backoff \in 1..MaxBackoff

StartState ==
    /\ pc = "idle"
    /\ i = 0
    /\ points = <<>>
    /\ attempt = 0
    /\ total_uploaded = 0
    /\ collection = EmptyCollection
    /\ calls = <<>>
    /\ sleeps = <<>>
    /\ done = <<>>
    /\ progress = <<>>
    /\ result = -1
    /\ error = "none"
    /\ run = 1
    /\ prev = NoPrev

(***************************************************************************)
(* QdrantCollectionManager.  The remote service holds, per collection      *)
(* name, the layout it was created with, or "absent".  A public operation  *)
(* is one action; the remote calls it makes are logged in order.  A remote *)
(* call may raise (failAt names the call of the operation that does), and  *)
(* the service refuses to create a collection under a name that exists.    *)
(***************************************************************************)
Names == {"c1", "c2"}
QuantConfigs == {"scalar", "binary"}
CollectionTypes == {"standard", "hybrid", "quantized", "other"}
FailPoints == 0..3

Absent == [layout |-> "absent", quantization |-> "None"]
Layout(kind, quantization_config) ==
    [layout |-> kind, quantization |-> quantization_config]
Layouts ==
    {Absent, Layout("standard", "None"), Layout("hybrid", "None")}
        \cup {Layout("quantized", q) : q \in QuantConfigs}

ExistsCall(name) == [call |-> "collection_exists", name |-> name,
                     layout |-> Absent]
DeleteCall(name) == [call |-> "delete_collection", name |-> name,
                     layout |-> Absent]
CreateCall(name, layout) == [call |-> "create_collection", name |-> name,
                             layout |-> layout]
GetCall(name) == [call |-> "get_collection", name |-> name, layout |-> Absent]

\* The effect of an accepted remote call on the collections.
Apply(colls, c) ==
    IF c.call = "delete_collection" THEN [colls EXCEPT ![c.name] = Absent]
    ELSE IF c.call = "create_collection"
         THEN [colls EXCEPT ![c.name] = c.layout]
    ELSE colls

Refused(colls, c) ==
    \/ c.call = "create_collection" /\ colls[c.name] # Absent
    \/ c.call \in {"delete_collection", "get_collection"}
          /\ colls[c.name] = Absent

\* One remote call of a running operation: s is [colls, log, result], and
\* result stays "running" until a call raises.
RemoteCall(s, c, failAt) ==
    IF s.result # "running" THEN s
    ELSE IF failAt = Len(s.log) + 1 \/ Refused(s.colls, c)
         THEN [s EXCEPT !.log = Append(@, c), !.result = "RemoteError"]
    ELSE [colls |-> Apply(s.colls, c), log |-> Append(s.log, c),
          result |-> "running"]

RaiseIn(s, exc) == IF s.result = "running" THEN [s EXCEPT !.result = exc] ELSE s

\* collection_exists answers from the remote state.
Exists(s, name) == s.colls[name] # Absent

\* Lines 44-53.
DeleteCollectionRunAlways(s, name, failAt) ==
    RemoteCall(RemoteCall(s, ExistsCall(name), failAt), DeleteCall(name), failAt)
DeleteCollectionRun(s, name, failAt) ==
    LET s1 == RemoteCall(s, ExistsCall(name), failAt) IN
    IF s1.result = "running" /\ Exists(s1, name)
    THEN RemoteCall(s1, DeleteCall(name), failAt)
    ELSE s1

\* Lines 55-116.
CreateHybridRun(s, name, failAt) ==
    RemoteCall(s, CreateCall(name, Layout("hybrid", "None")), failAt)
CreateStandardRun(s, name, failAt) ==
    RemoteCall(s, CreateCall(name, Layout("standard", "None")), failAt)
CreateQuantizedRun(s, name, quantization_config, failAt) ==
    RemoteCall(s, CreateCall(name, Layout("quantized", quantization_config)),
               failAt)

\* Lines 132-141: the delete comes first, the branch on the type after it.
CreateByTypeHybridDefault(s, name, collection_type, quantization_config, failAt) ==
    IF collection_type = "standard" THEN CreateStandardRun(s, name, failAt)
    ELSE IF collection_type = "quantized"
         THEN IF quantization_config = "None"
              THEN RaiseIn(s, "ValueError")
              ELSE CreateQuantizedRun(s, name, quantization_config, failAt)
    ELSE CreateHybridRun(s, name, failAt)
CreateByType(s, name, collection_type, quantization_config, failAt) ==
    IF collection_type = "hybrid" THEN CreateHybridRun(s, name, failAt)
    ELSE IF collection_type = "quantized"
         THEN IF quantization_config = "None"
              THEN RaiseIn(s, "ValueError")
              ELSE CreateQuantizedRun(s, name, quantization_config, failAt)
    ELSE CreateStandardRun(s, name, failAt)

RecreateCollectionRun(s, name, collection_type, quantization_config, failAt) ==
    CreateByType(DeleteCollectionRun(s, name, failAt),
                 name, collection_type, quantization_config, failAt)

\* Lines 153-162.
GetCollectionInfoRunUnchecked(s, name, failAt) ==
    RemoteCall(RemoteCall(s, ExistsCall(name), failAt), GetCall(name), failAt)
GetCollectionInfoRun(s, name, failAt) ==
    LET s1 == RemoteCall(s, ExistsCall(name), failAt) IN
    IF s1.result = "running" /\ ~Exists(s1, name)
    THEN RaiseIn(s1, "ValueError")
    ELSE RemoteCall(s1, GetCall(name), failAt)

Running == [colls |-> m_colls, log |-> <<>>, result |-> "running"]

NoOp == [op |-> "none", name |-> "none", type |-> "none",
         quantization_config |-> "None", result |-> "none"]

\* The operation op ended as s: the manager's caller sees s.result.
Finish(op, s) ==
    LET res == IF s.result = "running" THEN "ok" ELSE s.result IN
    /\ m_count < MaxOps
    /\ m_count' = m_count + 1
    /\ m_before' = m_colls
    /\ m_colls' = s.colls
    /\ m_log' = s.log
    /\ m_result' = res
    /\ m_prevop' = m_op
    /\ m_op' = [op EXCEPT !.result = res]
    /\ UNCHANGED <<uploaderVars, pureVars, benchVars>>

Op(op, name, type, quantization_config) ==
    [op |-> op, name |-> name, type |-> type,
     quantization_config |-> quantization_config, result |-> "none"]

CollectionExists ==
    \E name \in Names, failAt \in FailPoints :
        Finish(Op("collection_exists", name, "none", "None"),
               RemoteCall(Running, ExistsCall(name), failAt))

DeleteCollection ==
    \E name \in Names, failAt \in FailPoints :
        Finish(Op("delete_collection", name, "none", "None"),
               DeleteCollectionRun(Running, name, failAt))

CreateHybridCollection ==
    \E name \in Names, failAt \in FailPoints :
        Finish(Op("create_hybrid_collection", name, "hybrid", "None"),
               CreateHybridRun(Running, name, failAt))

CreateStandardCollection ==
    \E name \in Names, failAt \in FailPoints :
        Finish(Op("create_standard_collection", name, "standard", "None"),
               CreateStandardRun(Running, name, failAt))

CreateQuantizedCollection ==
    \E name \in Names, q \in QuantConfigs, failAt \in FailPoints :
        Finish(Op("create_quantized_collection", name, "quantized", q),
               CreateQuantizedRun(Running, name, q, failAt))

RecreateCollection ==
    \E name \in Names, type \in CollectionTypes,
       q \in QuantConfigs \cup {"None"}, failAt \in FailPoints :
        Finish(Op("recreate_collection", name, type, q),
               RecreateCollectionRun(Running, name, type, q, failAt))

GetCollectionInfo ==
    \E name \in Names, failAt \in FailPoints :
        Finish(Op("get_collection_info", name, "none", "None"),
               GetCollectionInfoRun(Running, name, failAt))

ManagerIdle ==
    /\ m_before = m_colls
    /\ m_op = NoOp
    /\ m_prevop = NoOp
    /\ m_log = <<>>
    /\ m_result = "none"
    /\ m_count = 0

ManagerUnused == m_colls = [n \in Names |-> Absent] /\ ManagerIdle

ManagerInit == m_colls \in [Names -> Layouts] /\ ManagerIdle

ManagerNext ==
    \/ CollectionExists
    \/ DeleteCollection
    \/ CreateHybridCollection
    \/ CreateStandardCollection
    \/ CreateQuantizedCollection
    \/ RecreateCollection
    \/ GetCollectionInfo

(***************************************************************************)
(* PerformanceBenchmark._calculate_metrics.  Latencies are integers; a     *)
(* percentile is kept times 1000 and the average as the fraction sum/n, so *)
(* that the interpolation is exact.  np.percentile (default method) sorts  *)
(* the sample and interpolates linearly between the two ranks around       *)
(* (n-1)*q/100.                                                            *)
(***************************************************************************)
Scale == 1000

RECURSIVE Insert(_, _)
Insert(x, sorted) ==
    IF sorted = <<>> THEN <<x>>
    ELSE IF x <= Head(sorted) THEN <<x>> \o sorted
    ELSE <<Head(sorted)>> \o Insert(x, Tail(sorted))

Unsorted(seq) == seq
RECURSIVE Sorted(_)
Sorted(seq) == IF seq = <<>> THEN <<>> ELSE Insert(Head(seq), Sorted(Tail(seq)))

RECURSIVE Sum(_)
Sum(seq) == IF seq = <<>> THEN 0 ELSE Head(seq) + Sum(Tail(seq))

\* np.percentile(latencies, q) times Scale, for q = permille / 10 and a
\* sample that is not empty.
PercentileLower(latencies, permille) ==
    LET a == Sorted(latencies)
        lo == ((Len(a) - 1) * permille) \div Scale
    IN  a[lo + 1] * Scale
Percentile(latencies, permille) ==
    LET a == Sorted(latencies)
        n == Len(a)
        pos == (n - 1) * permille
        lo == pos \div Scale
        gamma == pos % Scale
        hi == Min(lo + 1, n - 1)
    IN  a[lo + 1] * Scale + gamma * (a[hi + 1] - a[lo + 1])

\* np.mean(latencies) as the fraction sum / n.
Mean(latencies) == [sum |-> Sum(latencies), n |-> Len(latencies)]

\* Lines 306-314, on a sample that is not empty.
CalculateMetrics(latencies) ==
    [avg   |-> Mean(latencies),
     p50   |-> Percentile(latencies, 500),
     p90   |-> Percentile(latencies, 900),
     p95   |-> Percentile(latencies, 950),
     p99   |-> Percentile(latencies, 990),
     p99_5 |-> Percentile(latencies, 995),
     p99_9 |-> Percentile(latencies, 999)]

\* On an empty sample np.mean gives nan; np.percentile gives nan or raises
\* IndexError, depending on the numpy release.
NanMetrics == [avg |-> "nan", p50 |-> "nan", p90 |-> "nan", p95 |-> "nan",
               p99 |-> "nan", p99_5 |-> "nan", p99_9 |-> "nan"]
EmptySampleOutcomes == {"nan", "IndexError"}

(***************************************************************************)
(* The accuracy score of measure_accuracy_retention, lines 286-287, as a   *)
(* fraction in lowest terms.                                               *)
(***************************************************************************)
RECURSIVE Gcd(_, _)
Gcd(a, b) == IF b = 0 THEN a ELSE Gcd(b, a % b)

Frac(num, den) ==
    [num |-> num \div Gcd(num, den), den |-> den \div Gcd(num, den)]

AccuracyOverCandidate(baseline_ids, quantized_ids) ==
    IF quantized_ids # {}
    THEN Frac(Cardinality(baseline_ids \cap quantized_ids),
              Cardinality(quantized_ids))
    ELSE Frac(0, 1)
Accuracy(baseline_ids, quantized_ids) ==
    IF baseline_ids # {}
    THEN Frac(Cardinality(baseline_ids \cap quantized_ids),
              Cardinality(baseline_ids))
    ELSE Frac(0, 1)

\* The sample of tests/test_benchmarking.py test_calculate_metrics.
TestSample == <<10, 20, 30, 40, 50, 60, 70, 80, 90, 100>>

RECURSIVE SeqsUpTo(_, _)
SeqsUpTo(S, n) ==
    IF n = 0 THEN {<<>>}
    ELSE LET shorter == SeqsUpTo(S, n - 1)
         IN  shorter \cup {Append(q, x) : q \in shorter, x \in S}

NoMetrics == [avg |-> "none", p50 |-> "none", p90 |-> "none", p95 |-> "none",
              p99 |-> "none", p99_5 |-> "none", p99_9 |-> "none"]
NoScore == [num |-> -1, den |-> 1]

PureUnused ==
    /\ p_pc = "unused"
    /\ p_samples = <<>>
    /\ p_metrics = NoMetrics
    /\ p_baseline = {}
    /\ p_candidate = {}
    /\ p_score = NoScore

PureInit ==
    /\ p_metrics = NoMetrics
    /\ p_score = NoScore
    /\ \/ /\ p_pc = "latencies"
          /\ p_samples \in SeqsUpTo(1..MaxLatency, MaxSamples) \cup {TestSample}
          /\ p_baseline = {}
          /\ p_candidate = {}
       \/ /\ p_pc = "results"
          /\ p_samples = <<>>
          /\ p_baseline \in SUBSET (1..MaxId)
          /\ p_candidate \in SUBSET (1..MaxId)

\* _calculate_metrics(p_samples) is called.
ApplyCalculateMetrics ==
    /\ p_pc = "latencies"
    /\ IF p_samples # <<>>
       THEN /\ p_metrics' = CalculateMetrics(p_samples)
            /\ p_pc' = "metrics"
       ELSE \E outcome \in EmptySampleOutcomes :
               IF outcome = "nan"
               THEN p_metrics' = NanMetrics /\ p_pc' = "metrics"
               ELSE p_metrics' = p_metrics /\ p_pc' = "raised"
    /\ UNCHANGED <<p_samples, p_baseline, p_candidate, p_score>>
    /\ UNCHANGED <<uploaderVars, managerVars, benchVars>>

\* Lines 286-287 are run on the two id sets.
ApplyAccuracy ==
    /\ p_pc = "results"
    /\ p_score' = Accuracy(p_baseline, p_candidate)
    /\ p_pc' = "scored"
    /\ UNCHANGED <<p_samples, p_metrics, p_baseline, p_candidate>>
    /\ UNCHANGED <<uploaderVars, managerVars, benchVars>>

PureNext == ApplyCalculateMetrics \/ ApplyAccuracy

(***************************************************************************)
(* PerformanceBenchmark (benchmarking.py).  One operation runs at a time;  *)
(* every client.query_points call is one step and either returns or        *)
(* raises, and an exception leaves the operation.                          *)
(***************************************************************************)
QueryStrings == {"a", "b"}
WarmupText == "warmup query"
\* The factors argument: lists in both orders and with a repeated factor.
FactorLists == {<<>>, <<2>>, <<3>>, <<2, 3>>, <<3, 2>>, <<2, 2>>}
DefaultOversampling == 3
Latencies == {1, 2}
ResultIds == {1, 2}
QueryOutcomes == {"ok", "error"}

\* models.SearchParams(quantization=QuantizationSearchParams(rescore=True,
\* oversampling=factor))
RescoreParams(factor) == [rescore |-> TRUE, oversampling |-> factor]

\* search_params is not passed.
NoParams == [rescore |-> FALSE, oversampling |-> 0]

\* The keyword arguments of one client.query_points call; a vector name that
\* is not passed is "None".
Query(collection_name, query, using, search_params) ==
    [collection_name |-> collection_name, query |-> query, using |-> using,
     search_params |-> search_params]

\* warmup, line 43.
NeedsWarmupAlways(op) == TRUE
NeedsWarmupUnnamed(op) == op.warmup_enabled /\ op.using = "None"
NeedsWarmup(op) == op.warmup_enabled

\* for query in test_queries: the query of the iteration qi.
NextQueryReversed(test_queries, qi) == test_queries[Len(test_queries) - qi + 1]
NextQuery(test_queries, qi) == test_queries[qi]

\* Lines 48-57.
WarmupQuery(op) == Query(op.collection_name, WarmupText, op.using, NoParams)

\* Lines 93-105.
MeasuredQuery(op, qi) ==
    Query(op.collection_name, NextQuery(op.test_queries, qi), op.using,
          op.search_params)

\* Lines 150-160.
RescoringQuery(op, qi) ==
    Query(op.collection_name, NextQuery(op.test_queries, qi), "None",
          RescoreParams(DefaultOversampling))

\* Lines 206-216 and 272-282.
SweepParamsFixed(factor) == RescoreParams(DefaultOversampling)
SweepParams(factor) == RescoreParams(factor)

TuneQuery(op, fi, qi) ==
    Query(op.collection_name, NextQuery(op.test_queries, qi), "None",
          SweepParams(op.factors[fi]))

\* Lines 263-268.
BaselineQuery(op, qi) ==
    Query(op.collection_name, NextQuery(op.test_queries, qi),
          op.using, NoParams)

QuantizedQuery(op, fi, qi) ==
    Query(op.quantized_collection, NextQuery(op.test_queries, qi), "None",
          SweepParams(op.factors[fi]))

\* Lines 220-223, on a sample that is not empty.
TuneResultFull(latencies) == CalculateMetrics(latencies)
TuneResult(latencies) ==
    [avg_latency |-> Mean(latencies), p95_latency |-> Percentile(latencies, 950)]

NanTuneResult == [avg_latency |-> "nan", p95_latency |-> "nan"]

\* np.mean(accuracy_scores), line 291.
FracAdd(x, y) == Frac(x.num * y.den + y.num * x.den, x.den * y.den)

RECURSIVE FracSum(_)
FracSum(scores) ==
    IF scores = <<>> THEN Frac(0, 1) ELSE FracAdd(Head(scores), FracSum(Tail(scores)))

\* np.mean of an empty list is nan, kept as 0/0.
NanScore == [num |-> 0, den |-> 0]

MeanScore(scores) ==
    IF scores = <<>> THEN NanScore
    ELSE Frac(FracSum(scores).num, FracSum(scores).den * Len(scores))

\* results[factor] = value
Put(results, factor, value) ==
    [f \in DOMAIN results \cup {factor} |->
        IF f = factor THEN value ELSE results[f]]

NoResults == [f \in {} |-> "none"]

BenchOp(name, test_queries, factors, using, search_params, warmup_enabled) ==
    [name |-> name, collection_name |-> "c1", quantized_collection |-> "c2",
     test_queries |-> test_queries, factors |-> factors, using |-> using,
     search_params |-> search_params, warmup_enabled |-> warmup_enabled]

NoBenchOp == BenchOp("none", <<>>, <<>>, "None", NoParams, FALSE)

BenchIdle ==
    /\ b_pc = "idle"
    /\ b_fi = 1
    /\ b_qi = 1
    /\ b_queries = <<>>
    /\ b_latencies = <<>>
    /\ b_baseline_ids = {}
    /\ b_scores = <<>>
    /\ b_results = NoResults
    /\ b_reduced = <<>>
    /\ b_error = "None"

BenchUnused == b_op = NoBenchOp /\ BenchIdle

\* The public operations with their arguments and BenchmarkConfig.
BenchInit ==
    /\ BenchIdle
    /\ \E test_queries \in SeqsUpTo(QueryStrings, MaxQueries),
          warmup_enabled \in BOOLEAN :
          \/ \E using \in {"None", "dense"},
                search_params \in {NoParams, RescoreParams(DefaultOversampling)} :
                b_op = BenchOp("measure_search_latency", test_queries, <<>>,
                               using, search_params, warmup_enabled)
          \/ b_op = BenchOp("benchmark_quantization", test_queries, <<>>,
                            "None", NoParams, warmup_enabled)
          \/ \E factors \in FactorLists :
                b_op = BenchOp("tune_oversampling", test_queries, factors,
                               "None", NoParams, warmup_enabled)
          \/ \E factors \in FactorLists :
                b_op = BenchOp("measure_accuracy_retention", test_queries,
                               factors, "dense", NoParams, warmup_enabled)

BenchRaiseSwallowed(exc) ==
    /\ b_pc' = b_pc
    /\ b_error' = exc
BenchRaise(exc) ==
    /\ b_pc' = "raised"
    /\ b_error' = exc

\* One client.query_points(**query) call: it is logged, then returns or raises.
Issue(query, outcome) ==
    /\ b_queries' = Append(b_queries, query)
    /\ outcome = "error" => BenchRaise("QueryError")

\* measure_search_latency is entered (lines 80-86), directly or from
\* benchmark_quantization (lines 132-140); warmup returns at once when
\* warmup is disabled.
EnterLatencyRun ==
    /\ b_pc = "idle"
    /\ b_op.name \in {"measure_search_latency", "benchmark_quantization"}
    /\ b_pc' = IF NeedsWarmup(b_op) THEN "warmup" ELSE "measuring"
    /\ UNCHANGED <<b_op, b_fi, b_qi, b_queries, b_latencies, b_baseline_ids,
                   b_scores, b_results, b_reduced, b_error>>
    /\ UNCHANGED <<uploaderVars, managerVars, pureVars>>

\* warmup, lines 46-57: one query whose result is discarded.
Warmup ==
    /\ b_pc = "warmup"
    /\ \E outcome \in QueryOutcomes :
          /\ Issue(WarmupQuery(b_op), outcome)
          /\ outcome = "ok" => (b_pc' = "measuring" /\ b_error' = b_error)
    /\ UNCHANGED <<b_op, b_fi, b_qi, b_latencies, b_baseline_ids, b_scores,
                   b_results, b_reduced>>
    /\ UNCHANGED <<uploaderVars, managerVars, pureVars>>

\* One iteration of the loop of lines 88-108.
MeasureQuery ==
    /\ b_pc = "measuring"
    /\ b_qi <= Len(b_op.test_queries)
    /\ \E outcome \in QueryOutcomes, latency \in Latencies :
          /\ Issue(MeasuredQuery(b_op, b_qi), outcome)
          /\ IF outcome = "ok"
             THEN /\ b_latencies' = Append(b_latencies, latency)
                  /\ b_qi' = b_qi + 1
                  /\ UNCHANGED <<b_pc, b_error>>
             ELSE UNCHANGED <<b_latencies, b_qi>>
    /\ UNCHANGED <<b_op, b_fi, b_baseline_ids, b_scores, b_results, b_reduced>>
    /\ UNCHANGED <<uploaderVars, managerVars, pureVars>>

\* The loop of line 88 is exhausted.
EndMeasuring ==
    /\ b_pc = "measuring"
    /\ b_qi > Len(b_op.test_queries)
    /\ b_pc' = "reducing"
    /\ UNCHANGED <<b_op, b_fi, b_qi, b_queries, b_latencies, b_baseline_ids,
                   b_scores, b_results, b_reduced, b_error>>
    /\ UNCHANGED <<uploaderVars, managerVars, pureVars>>

\* _calculate_metrics(latencies) as called from the benchmark, when it
\* returns: the bundle, or nan for an empty list.
Reduced(latencies) ==
    IF latencies # <<>> THEN CalculateMetrics(latencies) ELSE NanMetrics

\* numpy raises on the empty list.
ReduceRaises(latencies, outcome) == latencies = <<>> /\ outcome = "IndexError"

\* Lines 110-113; benchmark_quantization goes on with line 143.
Reduce ==
    /\ b_pc = "reducing"
    /\ \E outcome \in EmptySampleOutcomes :
          LET metrics == Reduced(b_latencies)
          IN  IF ReduceRaises(b_latencies, outcome)
              THEN /\ BenchRaise("IndexError")
                   /\ UNCHANGED <<b_results, b_reduced, b_latencies, b_qi>>
              ELSE /\ b_reduced' = Append(b_reduced, Len(b_latencies))
                   /\ b_error' = b_error
                   /\ IF b_op.name = "measure_search_latency"
                      THEN /\ b_results' = metrics
                           /\ b_pc' = "done"
                           /\ UNCHANGED <<b_latencies, b_qi>>
                      ELSE /\ b_results' = [no_rescoring |-> metrics]
                           /\ b_pc' = "rescoring"
                           /\ b_latencies' = <<>>
                           /\ b_qi' = 1
    /\ UNCHANGED <<b_op, b_fi, b_queries, b_baseline_ids, b_scores>>
    /\ UNCHANGED <<uploaderVars, managerVars, pureVars>>

\* One iteration of the loop of lines 145-163.
RescoringStep ==
    /\ b_pc = "rescoring"
    /\ b_qi <= Len(b_op.test_queries)
    /\ \E outcome \in QueryOutcomes, latency \in Latencies :
          /\ Issue(RescoringQuery(b_op, b_qi), outcome)
          /\ IF outcome = "ok"
             THEN /\ b_latencies' = Append(b_latencies, latency)
                  /\ b_qi' = b_qi + 1
                  /\ UNCHANGED <<b_pc, b_error>>
             ELSE UNCHANGED <<b_latencies, b_qi>>
    /\ UNCHANGED <<b_op, b_fi, b_baseline_ids, b_scores, b_results, b_reduced>>
    /\ UNCHANGED <<uploaderVars, managerVars, pureVars>>

\* Lines 165-171.
RescoringReduce ==
    /\ b_pc = "rescoring"
    /\ b_qi > Len(b_op.test_queries)
    /\ \E outcome \in EmptySampleOutcomes :
          LET metrics == Reduced(b_latencies)
          IN  IF ReduceRaises(b_latencies, outcome)
              THEN /\ BenchRaise("IndexError")
                   /\ UNCHANGED <<b_results, b_reduced>>
              ELSE /\ b_reduced' = Append(b_reduced, Len(b_latencies))
                   /\ b_results' = [no_rescoring |-> b_results.no_rescoring,
                                    with_rescoring |-> metrics]
                   /\ b_pc' = "done"
                   /\ b_error' = b_error
    /\ UNCHANGED <<b_op, b_fi, b_qi, b_queries, b_latencies, b_baseline_ids,
                   b_scores>>
    /\ UNCHANGED <<uploaderVars, managerVars, pureVars>>

\* tune_oversampling is entered, lines 190-196.
EnterTuneOversampling ==
    /\ b_pc = "idle"
    /\ b_op.name = "tune_oversampling"
    /\ b_pc' = "tuning"
    /\ UNCHANGED <<b_op, b_fi, b_qi, b_queries, b_latencies, b_baseline_ids,
                   b_scores, b_results, b_reduced, b_error>>
    /\ UNCHANGED <<uploaderVars, managerVars, pureVars>>

\* One iteration of the inner loop, lines 201-218.
TuneStep ==
    /\ b_pc = "tuning"
    /\ b_fi <= Len(b_op.factors)
    /\ b_qi <= Len(b_op.test_queries)
    /\ \E outcome \in QueryOutcomes, latency \in Latencies :
          /\ Issue(TuneQuery(b_op, b_fi, b_qi), outcome)
          /\ IF outcome = "ok"
             THEN /\ b_latencies' = Append(b_latencies, latency)
                  /\ b_qi' = b_qi + 1
                  /\ UNCHANGED <<b_pc, b_error>>
             ELSE UNCHANGED <<b_latencies, b_qi>>
    /\ UNCHANGED <<b_op, b_fi, b_baseline_ids, b_scores, b_results, b_reduced>>
    /\ UNCHANGED <<uploaderVars, managerVars, pureVars>>

\* The inner loop is exhausted: lines 220-223, then the next factor.
TuneFactorDone ==
    /\ b_pc = "tuning"
    /\ b_fi <= Len(b_op.factors)
    /\ b_qi > Len(b_op.test_queries)
    /\ \E outcome \in EmptySampleOutcomes :
          IF ReduceRaises(b_latencies, outcome)
          THEN /\ BenchRaise("IndexError")
               /\ UNCHANGED <<b_results, b_reduced, b_latencies, b_fi, b_qi>>
          ELSE /\ b_results' = Put(b_results, b_op.factors[b_fi],
                                   IF b_latencies = <<>> THEN NanTuneResult
                                   ELSE TuneResult(b_latencies))
               /\ b_reduced' = Append(b_reduced, Len(b_latencies))
               /\ b_latencies' = <<>>
               /\ b_fi' = b_fi + 1
               /\ b_qi' = 1
               /\ UNCHANGED <<b_pc, b_error>>
    /\ UNCHANGED <<b_op, b_queries, b_baseline_ids, b_scores>>
    /\ UNCHANGED <<uploaderVars, managerVars, pureVars>>

\* The outer loop is exhausted: line 225.
TuneReturn ==
    /\ b_pc = "tuning"
    /\ b_fi > Len(b_op.factors)
    /\ b_pc' = "done"
    /\ UNCHANGED <<b_op, b_fi, b_qi, b_queries, b_latencies, b_baseline_ids,
                   b_scores, b_results, b_reduced, b_error>>
    /\ UNCHANGED <<uploaderVars, managerVars, pureVars>>

\* measure_accuracy_retention is entered, lines 248-254.
EnterAccuracyRetention ==
    /\ b_pc = "idle"
    /\ b_op.name = "measure_accuracy_retention"
    /\ b_pc' = "baseline"
    /\ UNCHANGED <<b_op, b_fi, b_qi, b_queries, b_latencies, b_baseline_ids,
                   b_scores, b_results, b_reduced, b_error>>
    /\ UNCHANGED <<uploaderVars, managerVars, pureVars>>

\* Lines 260-269: the query to the original collection.
BaselineStep ==
    /\ b_pc = "baseline"
    /\ b_fi <= Len(b_op.factors)
    /\ b_qi <= Len(b_op.test_queries)
    /\ \E outcome \in QueryOutcomes, ids \in SUBSET ResultIds :
          /\ Issue(BaselineQuery(b_op, b_qi), outcome)
          /\ IF outcome = "ok"
             THEN /\ b_baseline_ids' = ids
                  /\ b_pc' = "quantized"
                  /\ b_error' = b_error
             ELSE UNCHANGED b_baseline_ids
    /\ UNCHANGED <<b_op, b_fi, b_qi, b_latencies, b_scores, b_results, b_reduced>>
    /\ UNCHANGED <<uploaderVars, managerVars, pureVars>>

\* Lines 271-288: the query to the quantized collection and the score.
QuantizedStep ==
    /\ b_pc = "quantized"
    /\ \E outcome \in QueryOutcomes, quantized_ids \in SUBSET ResultIds :
          /\ Issue(QuantizedQuery(b_op, b_fi, b_qi), outcome)
          /\ IF outcome = "ok"
             THEN /\ b_scores' = Append(b_scores, Accuracy(b_baseline_ids, quantized_ids))
                  /\ b_qi' = b_qi + 1
                  /\ b_baseline_ids' = {}
                  /\ b_pc' = "baseline"
                  /\ b_error' = b_error
             ELSE UNCHANGED <<b_scores, b_qi, b_baseline_ids>>
    /\ UNCHANGED <<b_op, b_fi, b_latencies, b_results, b_reduced>>
    /\ UNCHANGED <<uploaderVars, managerVars, pureVars>>

\* The inner loop is exhausted: lines 290-292, then the next factor.
AccuracyFactorDone ==
    /\ b_pc = "baseline"
    /\ b_fi <= Len(b_op.factors)
    /\ b_qi > Len(b_op.test_queries)
    /\ b_results' = Put(b_results, b_op.factors[b_fi],
                        [avg_accuracy |-> MeanScore(b_scores)])
    /\ b_reduced' = Append(b_reduced, Len(b_scores))
    /\ b_scores' = <<>>
    /\ b_fi' = b_fi + 1
    /\ b_qi' = 1
    /\ UNCHANGED <<b_op, b_pc, b_queries, b_latencies, b_baseline_ids, b_error>>
    /\ UNCHANGED <<uploaderVars, managerVars, pureVars>>

\* The outer loop is exhausted: line 294.
AccuracyReturn ==
    /\ b_pc = "baseline"
    /\ b_fi > Len(b_op.factors)
    /\ b_pc' = "done"
    /\ UNCHANGED <<b_op, b_fi, b_qi, b_queries, b_latencies, b_baseline_ids,
                   b_scores, b_results, b_reduced, b_error>>
    /\ UNCHANGED <<uploaderVars, managerVars, pureVars>>

BenchNext ==
    \/ EnterLatencyRun
    \/ Warmup
    \/ MeasureQuery
    \/ EndMeasuring
    \/ Reduce
    \/ RescoringStep
    \/ RescoringReduce
    \/ EnterTuneOversampling
    \/ TuneStep
    \/ TuneFactorDone
    \/ TuneReturn
    \/ EnterAccuracyRetention
    \/ BaselineStep
    \/ QuantizedStep
    \/ AccuracyFactorDone
    \/ AccuracyReturn

\* The configuration surface: max retry attempts is a positive integer.
Init ==
    /\ ConfigInit(1..MaxRetriesBound) /\ StartState
    /\ ManagerUnused /\ PureUnused /\ BenchUnused

Next ==
    \/ UploadBatch /\ UNCHANGED <<managerVars, pureVars, benchVars>>
    \/ NextBatch /\ UNCHANGED <<managerVars, pureVars, benchVars>>
    \/ UpsertOnce /\ UNCHANGED <<managerVars, pureVars, benchVars>>
    \/ UploadWithRetry /\ UNCHANGED <<managerVars, pureVars, benchVars>>
    \/ UploadAgain /\ UNCHANGED <<managerVars, pureVars, benchVars>>

\* The uploader at rest, for the specifications of the other components.
UploaderUnused ==
    /\ dataset = <<>>
    /\ embeddings = <<>>
    /\ named_vector = TRUE
    /\ vector_name = "dense"
    /\ show_progress = TRUE
    /\ batch_size = 1
    /\ enable_retry = FALSE
    /\ max_retries = 1
    /\ initial_backoff = 1
    /\ StartState

\* An uploader on which upload_batch is not called.
UploaderOff ==
    /\ dataset = <<>>
    /\ embeddings = <<>>
    /\ named_vector = TRUE
    /\ vector_name = "dense"
    /\ show_progress = TRUE
    /\ batch_size = 1
    /\ enable_retry = FALSE
    /\ max_retries = 1
    /\ initial_backoff = 1
    /\ pc = "off"
    /\ i = 0
    /\ points = <<>>
    /\ attempt = 0
    /\ total_uploaded = 0
    /\ collection = EmptyCollection
    /\ calls = <<>>
    /\ sleeps = <<>>
    /\ done = <<>>
    /\ progress = <<>>
    /\ result = -1
    /\ error = "none"
    /\ run = 1
    /\ prev = NoPrev

\* The two components that call the remote service in a loop: an upload, or
\* a benchmark operation.
InitFailures ==
    /\ ManagerUnused /\ PureUnused
    /\ \/ ConfigInit(1..MaxRetriesBound) /\ StartState /\ BenchUnused
       \/ BenchInit /\ UploaderOff

NextFailures == Next \/ BenchNext

SpecFailures == InitFailures /\ [][NextFailures]_vars

\* Uploads large enough to reach the progress interval: corpora around one
\* and two intervals, batch sizes that divide the interval and that do not.
ProgressSizes == {999, 1000, 1200, 2000}
ProgressBatchSizes == {300, 500, 1000}

ProgressConfigInit ==
    /\ \E n \in ProgressSizes : dataset = CorpusOf(n) /\ embeddings = EmbeddingsOf(n)
    /\ named_vector = FALSE
    /\ vector_name = "dense"
    /\ show_progress \in BOOLEAN
    /\ batch_size \in ProgressBatchSizes
    /\ enable_retry \in BOOLEAN
    /\ max_retries = 1
    /\ initial_backoff = 1

InitProgress ==
    /\ ProgressConfigInit /\ StartState
    /\ ManagerUnused /\ PureUnused /\ BenchUnused

SpecProgress == InitProgress /\ [][Next]_vars

InitManager == ManagerInit /\ UploaderUnused /\ PureUnused /\ BenchUnused

InitPure == PureInit /\ UploaderUnused /\ ManagerUnused /\ BenchUnused

InitBench == BenchInit /\ UploaderUnused /\ ManagerUnused /\ PureUnused

SpecBench == InitBench /\ [][BenchNext]_vars

SpecPure == InitPure /\ [][PureNext]_vars

SpecManager == InitManager /\ [][ManagerNext]_vars

Spec == Init /\ [][Next]_vars

\* UploadConfig performs no validation: max_retries = 0 is accepted too.
InitAnyRetries ==
    /\ ConfigInit(0..MaxRetriesBound) /\ StartState
    /\ ManagerUnused /\ PureUnused /\ BenchUnused

SpecAnyRetries == InitAnyRetries /\ [][Next]_vars

\* The single worker of upload_batch is never suspended for good: a step
\* that can be taken is taken.
SpecLive == Init /\ [][Next]_vars /\ WF_vars(Next)

(***************************************************************************)
(* Derived views of the logs.                                              *)
(***************************************************************************)
N == Len(dataset)
Ceil(a, b) == (a + b - 1) \div b

CallsOf(offset) == SelectSeq(calls, LAMBDA c : c.offset = offset)
SleepsOf(offset) == SelectSeq(sleeps, LAMBDA w : w.offset = offset)
Failed(cs) == SelectSeq(cs, IsFailure)

SubmittedIds == UNION {Ids(calls[c].points) : c \in 1..Len(calls)}
FailureFree == \A c \in 1..Len(calls) : calls[c].outcome = "ok"
SomeRetry == \E c \in 1..Len(calls) : calls[c].outcome # "ok"

(***************************************************************************)
(* C1: in every upsert call each Point's id is the batch's start offset    *)
(* plus the Point's index in the batch, which is the index of its item in  *)
(* the corpus; no two distinct items get the same id; and the calls of a   *)
(* completed upload of n items submitted exactly the ids 0..n-1, whatever  *)
(* the batch size and whatever retries happened.                           *)
(***************************************************************************)
C1_IdentifierIsCorpusIndex ==
    /\ \A c \in 1..Len(calls) : \A j \in 1..Len(calls[c].points) :
          /\ calls[c].points[j].id = calls[c].offset + (j - 1)
          /\ calls[c].points[j].id \in 0..(N - 1)
          /\ calls[c].points[j].payload = dataset[calls[c].points[j].id + 1]
    /\ \A c1, c2 \in 1..Len(calls) :
          \A j1 \in 1..Len(calls[c1].points), j2 \in 1..Len(calls[c2].points) :
             calls[c1].points[j1].id = calls[c2].points[j2].id
                => calls[c1].points[j1].payload = calls[c2].points[j2].payload
    /\ pc = "returned" => SubmittedIds = 0..(N - 1)

C1_Witness ==
    /\ pc = "returned"
    /\ N = 4
    /\ batch_size = 2
    /\ SomeRetry
    /\ SubmittedIds = 0..(N - 1)

(***************************************************************************)
(* C2: an upload in which no upsert failed issues exactly ceil(n/B) calls, *)
(* the k-th (from 0) carrying the consecutive ids k*B .. min((k+1)*B,n)-1, *)
(* and returns n.                                                          *)
(***************************************************************************)
C2_FailureFreeBatches ==
    (pc = "returned" /\ FailureFree) =>
        /\ Len(calls) = Ceil(N, batch_size)
        /\ \A k \in 0..(Len(calls) - 1) :
              /\ Len(calls[k + 1].points)
                    = Min((k + 1) * batch_size, N) - k * batch_size
              /\ \A j \in 1..Len(calls[k + 1].points) :
                    calls[k + 1].points[j].id = k * batch_size + (j - 1)
              /\ (k < Len(calls) - 1 => Len(calls[k + 1].points) = batch_size)
        /\ result = N

C2_Witness ==
    /\ pc = "returned"
    /\ FailureFree
    /\ ~enable_retry
    /\ N = 4
    /\ batch_size = 3
    /\ Len(calls) = 2
    /\ Ids(calls[2].points) = {3}
    /\ result = 4

(***************************************************************************)
(* C3: with len(dataset) # len(embeddings) the call fails with the size    *)
(* mismatch error and no remote call is made: no upsert, no wait, the      *)
(* collection as it was, with retry enabled or not.                        *)
(***************************************************************************)
C3_SizeMismatchNoRemoteCall ==
    Len(dataset) # Len(embeddings) =>
        /\ pc \in {"idle", "raised"}
        /\ pc = "raised" => error = "ValueError"
        /\ calls = <<>>
        /\ sleeps = <<>>
        /\ done = <<>>
        /\ result = -1
        /\ collection = EmptyCollection

C3_Witness ==
    /\ Len(dataset) < Len(embeddings)
    /\ enable_retry
    /\ pc = "raised"
    /\ error = "ValueError"
    /\ calls = <<>>

C5_ExhaustedRetries ==
    enable_retry =>
        /\ pc = "retry" =>
              /\ attempt < max_retries
              /\ Len(CallsOf(i)) = attempt
              /\ Len(SleepsOf(i)) = attempt
        /\ (pc = "raised" /\ error = "ResponseHandlingException") =>
              /\ Len(CallsOf(i)) = max_retries
              /\ \A c \in 1..Len(CallsOf(i)) :
                    CallsOf(i)[c].outcome = "ResponseHandlingException"
              /\ Len(SleepsOf(i)) = max_retries - 1
              /\ calls[Len(calls)].offset = i

C5_Witness ==
    /\ enable_retry
    /\ max_retries = 2
    /\ pc = "raised"
    /\ error = "ResponseHandlingException"
    /\ Len(CallsOf(i)) = 2
    /\ Len(SleepsOf(i)) = 1
    /\ i > 0

(***************************************************************************)
(* C6: when batch k fails fatally the upload raises, no later batch is     *)
(* ever submitted and nothing is undone: the points of batches 0..k-1 stay *)
(* stored, so a collection that was empty before the upload holds exactly  *)
(* the ids 0..k*B-1.                                                       *)
(***************************************************************************)
C6_State ==
    /\ error # "none" => pc = "raised"
    /\ (pc = "raised" /\ error # "ValueError") =>
          /\ i = Len(done) * batch_size
          /\ calls # <<>>
          /\ calls[Len(calls)].outcome = error
          /\ calls[Len(calls)].offset = i
          /\ \A c \in 1..Len(calls) : calls[c].offset <= i
          /\ result = -1
          /\ DOMAIN collection = prev.ids \cup 0..(i - 1)
          /\ run = 1 => DOMAIN collection = 0..(i - 1)
          /\ \A id \in 0..(i - 1) :
                /\ collection[id].id = id
                /\ collection[id].payload = dataset[id + 1]

C6_PartialUpload ==
    /\ []C6_State
    /\ [][pc = "raised" => UNCHANGED <<calls, collection, pc, error>>]_vars
    /\ [][DOMAIN collection \subseteq DOMAIN collection']_vars

C6_Witness ==
    /\ pc = "raised"
    /\ enable_retry
    /\ error = "ResponseHandlingException"
    /\ run = 1
    /\ batch_size = 2
    /\ Len(done) = 1
    /\ N = 4
    /\ DOMAIN collection = {0, 1}

(***************************************************************************)
(* C7: with retry disabled a failed upsert aborts the upload at once: the  *)
(* batch got exactly one attempt, there is no wait, and the error is the   *)
(* caller's.                                                               *)
(***************************************************************************)
C7_NoRetryWhenDisabled ==
    ~enable_retry =>
        /\ sleeps = <<>>
        /\ \A c1, c2 \in 1..Len(calls) :
              c1 # c2 => calls[c1].offset # calls[c2].offset
        /\ \A c \in 1..Len(calls) :
              calls[c].outcome # "ok" =>
                 /\ c = Len(calls)
                 /\ pc = "raised"
                 /\ error = calls[c].outcome
                 /\ result = -1

C7_Witness ==
    /\ ~enable_retry
    /\ pc = "raised"
    /\ error = "ResponseHandlingException"
    /\ Len(calls) = 2
    /\ sleeps = <<>>

(***************************************************************************)
(* C8: batches are submitted in ascending offset order: the first call is  *)
(* for offset 0, the call after a successful one is for the next offset,   *)
(* and the call after a failed one resubmits the same offset and Points.   *)
(***************************************************************************)
C8_AscendingOffsets ==
    /\ calls # <<>> => calls[1].offset = 0
    /\ \A c \in 1..(Len(calls) - 1) :
          IF calls[c].outcome = "ok"
          THEN calls[c + 1].offset = calls[c].offset + batch_size
          ELSE /\ calls[c + 1].offset = calls[c].offset
               /\ calls[c + 1].points = calls[c].points
    /\ \A c1, c2 \in 1..Len(calls) :
          c1 < c2 => calls[c1].offset <= calls[c2].offset

C8_Witness ==
    /\ Len(calls) = 4
    /\ calls[1].outcome = "ok"
    /\ calls[2].outcome = "ResponseHandlingException"
    /\ calls[3].outcome = "ok"
    /\ calls[3].points = calls[2].points
    /\ calls[4].offset = 2 * batch_size

(***************************************************************************)
(* C9: a second completed upload of the same corpus with the same batch    *)
(* size gets the same Points accepted as the first: same id for the same   *)
(* item, same grouping into batches, whatever failures and retries either  *)
(* run saw; the collection then holds the same id set as after the first.  *)
(***************************************************************************)
C9_IdempotentIdentifiers ==
    (run >= 2 /\ pc = "returned") =>
        /\ Len(Groups(calls)) = Len(prev.groups)
        /\ \A k \in 1..Len(Groups(calls)) :
              /\ Len(Groups(calls)[k]) = Len(prev.groups[k])
              /\ \A j \in 1..Len(Groups(calls)[k]) :
                    /\ Groups(calls)[k][j].id = prev.groups[k][j].id
                    /\ Groups(calls)[k][j].payload = prev.groups[k][j].payload
        /\ DOMAIN collection = prev.ids
        /\ prev.ids = 0..(N - 1)

C9_Witness ==
    /\ run = 2
    /\ pc = "returned"
    /\ N = 3
    /\ batch_size = 2
    /\ prev.retried
    /\ Len(calls) = 3
    /\ Len(prev.groups) = 2
    /\ DOMAIN collection = {0, 1, 2}

(***************************************************************************)
(* C10: the Point submitted with id j carries dataset[j] as payload and    *)
(* embeddings[j] as vector, and every Point of an upload has the layout    *)
(* the call asked for: {vector_name: embedding} if named_vector, else the  *)
(* bare embedding.                                                         *)
(***************************************************************************)
C10_PairingAndLayout ==
    \A c \in 1..Len(calls) : \A j \in 1..Len(calls[c].points) :
        LET p == calls[c].points[j] IN
        /\ p.id \in 0..(N - 1)
        /\ p.payload = dataset[p.id + 1]
        /\ p.vector.value = embeddings[p.id + 1]
        /\ IF named_vector
           THEN p.vector.kind = "mapping" /\ p.vector.key = vector_name
           ELSE p.vector.kind = "array"

C10_Witness ==
    /\ named_vector
    /\ vector_name = "text"
    /\ Len(calls) = 2
    /\ calls[2].offset = 2
    /\ Len(calls[2].points) = 2
    /\ calls[2].points[2].payload = Item(3)
    /\ calls[2].points[2].vector
          = [kind |-> "mapping", key |-> "text", value |-> Embedding(3)]

(***************************************************************************)
(* Views of the collection manager's last operation.                       *)
(***************************************************************************)
IsDelete(c) == c.call = "delete_collection"
IsCreate(c) == c.call = "create_collection"
IsRecreate(op) == op.op = "recreate_collection"

(***************************************************************************)
(* C19: recreate_collection(name, "quantized") without a quantization      *)
(* config fails with the configuration error before any remote call: the   *)
(* log of remote calls is empty (no existence check, delete or create) and *)
(* a collection that existed under the name still exists.                  *)
(***************************************************************************)
C19_ConfigErrorBeforeRemoteCall ==
    (/\ IsRecreate(m_op)
     /\ m_op.type = "quantized"
     /\ m_op.quantization_config = "None") =>
        /\ m_result = "ValueError"
        /\ m_log = <<>>
        /\ m_before[m_op.name] # Absent => m_colls[m_op.name] # Absent

(***************************************************************************)
(* C20: a successful recreate_collection(name, type) deletes name if and   *)
(* only if it existed, then creates it exactly once with the layout of the *)
(* type (hybrid, quantized, otherwise standard), the delete before the     *)
(* create; name then exists with that layout, the other collections are    *)
(* untouched, and repeating the same recreate leaves the same collections. *)
(***************************************************************************)
C20_RecreateDeleteThenCreate ==
    (IsRecreate(m_op) /\ m_result = "ok") =>
        LET name == m_op.name
            existed == m_before[name] # Absent
            want == IF m_op.type = "hybrid" THEN Layout("hybrid", "None")
                    ELSE IF m_op.type = "quantized"
                         THEN Layout("quantized", m_op.quantization_config)
                    ELSE Layout("standard", "None")
            deletes == SelectSeq(m_log, IsDelete)
            creates == SelectSeq(m_log, IsCreate)
        IN  /\ deletes = IF existed THEN <<DeleteCall(name)>> ELSE <<>>
            /\ creates = <<CreateCall(name, want)>>
            /\ m_log[Len(m_log)] = CreateCall(name, want)
            /\ m_colls[name] = want
            /\ want # Absent
            /\ \A other \in Names \ {name} : m_colls[other] = m_before[other]
            /\ m_prevop = m_op => m_colls = m_before

C20_Witness ==
    /\ m_count = 2
    /\ IsRecreate(m_op)
    /\ m_prevop = m_op
    /\ m_result = "ok"
    /\ m_op.type = "other"
    /\ m_log = <<ExistsCall(m_op.name), DeleteCall(m_op.name),
                 CreateCall(m_op.name, Layout("standard", "None"))>>
    /\ m_colls = m_before

(***************************************************************************)
(* The metric bundle and the accuracy score                                *)
(***************************************************************************)
Range(seq) == {seq[k] : k \in 1..Len(seq)}

Percentiles == <<"p50", "p90", "p95", "p99", "p99_5", "p99_9">>
Permille == [p50 |-> 500, p90 |-> 900, p95 |-> 950, p99 |-> 990,
             p99_5 |-> 995, p99_9 |-> 999]

MetricsComputed == p_pc = "metrics" /\ p_samples # <<>>
SampleMin == CHOOSE x \in Range(p_samples) : \A y \in Range(p_samples) : x <= y
SampleMax == CHOOSE x \in Range(p_samples) : \A y \in Range(p_samples) : x >= y

\* C14: the accuracy score is |B \cap C| / |B| for a baseline set B that is
\* not empty and 0 for an empty one; it lies in [0, 1]; it is 1 exactly when
\* B is not empty and B is a subset of C; B = {1..5}, C = {1,2,3,6,7} gives 0.6.
C14_AccuracyScore ==
    p_pc = "scored" =>
        /\ p_score.den > 0
        /\ IF p_baseline = {}
           THEN p_score.num = 0
           ELSE p_score.num * Cardinality(p_baseline) =
                    Cardinality(p_baseline \cap p_candidate) * p_score.den
        /\ 0 <= p_score.num /\ p_score.num <= p_score.den
        /\ (p_score.num = p_score.den) <=>
               (p_baseline # {} /\ p_baseline \subseteq p_candidate)
        /\ (p_baseline = 1..5 /\ p_candidate = {1, 2, 3, 6, 7}) =>
               p_score = [num |-> 3, den |-> 5]

C14_Witness ==
    /\ p_pc = "scored"
    /\ p_baseline = 1..5
    /\ p_candidate = {1, 2, 3, 6, 7}
    /\ p_score = [num |-> 3, den |-> 5]

\* C17: for a sample of at least two latencies the bundle satisfies
\* p50 <= p90 <= p95 <= p99 <= p99.5 <= p99.9, and every percentile lies
\* between the smallest and the largest sample.
C17_PercentilesOrdered ==
    (MetricsComputed /\ Len(p_samples) >= 2) =>
        /\ \A k \in 1..(Len(Percentiles) - 1) :
               p_metrics[Percentiles[k]] <= p_metrics[Percentiles[k + 1]]
        /\ \A k \in 1..Len(Percentiles) :
               /\ SampleMin * Scale <= p_metrics[Percentiles[k]]
               /\ p_metrics[Percentiles[k]] <= SampleMax * Scale

\* A sample given out of order whose percentiles are all different.
C17_Witness ==
    /\ MetricsComputed
    /\ Len(p_samples) >= 2
    /\ p_samples[1] > p_samples[2]
    /\ \A k \in 1..(Len(Percentiles) - 1) :
           p_metrics[Percentiles[k]] < p_metrics[Percentiles[k + 1]]

\* C18: each percentile is the linear interpolation of the sorted sample at
\* the fractional rank (n-1)*p/100, so the median of an even number of
\* samples is the mean of the two middle ones; the samples 10, 20, ..., 100
\* give average 55, p50 55, p90 91 and p99 99.1.
C18_LinearInterpolation ==
    MetricsComputed =>
        LET a == Sorted(p_samples)
            n == Len(a)
        IN  /\ \A k \in 1..Len(Percentiles) :
                   LET rank == (n - 1) * Permille[Percentiles[k]]
                       below == a[(rank \div Scale) + 1]
                       value == p_metrics[Percentiles[k]]
                   IN  IF rank % Scale = 0
                       THEN value = below * Scale
                       ELSE value = below * Scale
                                + (rank % Scale) * (a[(rank \div Scale) + 2] - below)
            /\ n % 2 = 0 => 2 * p_metrics.p50 = (a[n \div 2] + a[(n \div 2) + 1]) * Scale
            /\ n % 2 = 1 => p_metrics.p50 = a[(n + 1) \div 2] * Scale
            /\ p_metrics.avg.sum = Sum(p_samples) /\ p_metrics.avg.n = n
            /\ p_samples = TestSample =>
                   /\ p_metrics.avg.sum = 55 * p_metrics.avg.n
                   /\ p_metrics.p50 = 55000
                   /\ p_metrics.p90 = 91000
                   /\ p_metrics.p99 = 99100

C18_Witness ==
    /\ MetricsComputed
    /\ p_samples = TestSample
    /\ p_metrics.p99 = 99100

(***************************************************************************)
(* The benchmark engine                                                    *)
(***************************************************************************)
BN == Len(b_op.test_queries)
BF == Len(b_op.factors)
IsLatencyRun == b_op.name = "measure_search_latency"
IsWarmupQuery(q) == q.query = WarmupText
WarmupCount == IF b_op.warmup_enabled THEN 1 ELSE 0
Returned == b_pc = "done"

\* C11: a latency run over N test queries that returns has issued N queries
\* with warmup disabled and N + 1 with warmup enabled; the warmup query is the
\* first query of the run and adds no sample, so N samples are recorded; at
\* every moment the samples are as many as the measured queries that returned.
C11_WarmupQueryCount ==
    IsLatencyRun =>
        /\ \A k \in 1..Len(b_queries) :
               IsWarmupQuery(b_queries[k]) <=> (b_op.warmup_enabled /\ k = 1)
        /\ b_pc = "measuring" => Len(b_latencies) = Len(b_queries) - WarmupCount
        /\ Returned =>
               /\ Len(b_queries) = BN + WarmupCount
               /\ Len(b_latencies) = BN

C11_Witness ==
    /\ IsLatencyRun
    /\ Returned
    /\ b_op.warmup_enabled
    /\ BN = 2
    /\ Len(b_queries) = 3
    /\ Len(b_latencies) = 2

\* The phase changes of a latency run; an exception leaves any phase.
C12_Step ==
    IsLatencyRun =>
        \/ b_pc = "idle" /\ b_pc' = "warmup" /\ b_op.warmup_enabled
        \/ b_pc = "idle" /\ b_pc' = "measuring" /\ ~b_op.warmup_enabled
        \/ b_pc = "warmup" /\ b_pc' = "measuring" /\ Len(b_queries') = 1
        \/ /\ b_pc = "measuring" /\ b_pc' = "measuring"
           /\ Len(b_queries') = Len(b_queries) + 1
           /\ Len(b_latencies') = Len(b_latencies) + 1
        \/ b_pc = "measuring" /\ b_pc' = "reducing" /\ b_queries' = b_queries
        \/ b_pc = "reducing" /\ b_pc' = "done" /\ b_queries' = b_queries
        \/ b_pc \in {"warmup", "measuring", "reducing"} /\ b_pc' = "raised"

\* The measured queries so far are the first test queries in list order, and
\* statistics exist only once all N samples are there.
C12_State ==
    IsLatencyRun =>
        /\ \A k \in 1..Len(b_queries) :
               ~IsWarmupQuery(b_queries[k]) =>
                   b_queries[k].query = b_op.test_queries[k - WarmupCount]
        /\ b_pc \in {"idle", "warmup", "measuring", "reducing"} => b_reduced = <<>>
        /\ b_pc = "reducing" => Len(b_latencies) = BN
        /\ Returned => b_reduced = <<BN>>

\* C12: a latency run moves through idle, warmup (only when enabled),
\* measuring, reducing, done in that order and never back; the measured
\* queries are issued one per step in the order of the test-query list; the
\* metric bundle is computed once, after all N samples were collected.
C12_PhaseOrder == [](C12_State) /\ [][C12_Step]_vars

C12_Witness ==
    /\ IsLatencyRun
    /\ Returned
    /\ b_op.warmup_enabled
    /\ BN = 2
    /\ b_op.test_queries[1] # b_op.test_queries[2]
    /\ b_queries[2].query = b_op.test_queries[1]
    /\ b_queries[3].query = b_op.test_queries[2]
    /\ b_reduced = <<2>>

\* C13: benchmark_quantization over N test queries issues 2N queries with
\* warmup disabled and 2(N+1) with warmup enabled, each of its two runs
\* starting with the warmup query when warmup is enabled; the second run
\* carries rescoring with oversampling 3.0; the result has the keys
\* no_rescoring and with_rescoring.
C13_FullProtocolTwice ==
    (b_op.name = "benchmark_quantization" /\ Returned) =>
        /\ Len(b_queries) = 2 * (BN + WarmupCount)
        /\ DOMAIN b_results = {"no_rescoring", "with_rescoring"}
        /\ \A k \in 1..Len(b_queries) :
               k > BN + WarmupCount =>
                   /\ IsWarmupQuery(b_queries[k]) <=>
                          (b_op.warmup_enabled /\ k = BN + 2)
                   /\ ~IsWarmupQuery(b_queries[k]) =>
                          b_queries[k].search_params = RescoreParams(3)

\* The query number (fi, qi, j) of a sweep that issues per queries for each
\* test query.
SweepIndex(fi, qi, j, per) == ((fi - 1) * BN + (qi - 1)) * per + j

InUnit(score) == score.den > 0 /\ 0 <= score.num /\ score.num <= score.den

RECURSIVE DenProduct(_)
DenProduct(scores) ==
    IF scores = <<>> THEN 1 ELSE Head(scores).den * DenProduct(Tail(scores))

\* The sum of the scores times DenProduct(scores).
RECURSIVE ScaledSum(_, _)
ScaledSum(scores, d) ==
    IF scores = <<>> THEN 0
    ELSE (Head(scores).num * d) \div Head(scores).den + ScaledSum(Tail(scores), d)

IsAccuracySweep == b_op.name = "measure_accuracy_retention"

\* The queries of the accuracy sweep and the shape of its result.
C15_Queries ==
    IsAccuracySweep =>
        /\ \A k \in 1..Len(b_queries) :
               \E fi \in 1..BF, qi \in 1..BN :
                   \/ /\ k = SweepIndex(fi, qi, 1, 2)
                      /\ b_queries[k] = Query(b_op.collection_name,
                                              b_op.test_queries[qi],
                                              b_op.using, NoParams)
                   \/ /\ k = SweepIndex(fi, qi, 2, 2)
                      /\ b_queries[k] = Query(b_op.quantized_collection,
                                              b_op.test_queries[qi], "None",
                                              RescoreParams(b_op.factors[fi]))
        /\ Returned =>
               /\ Len(b_queries) = 2 * BF * BN
               /\ DOMAIN b_results = Range(b_op.factors)

\* The value reported for a factor is the mean of the N scores of its group.
C15_Report ==
    (IsAccuracySweep /\ b_fi' = b_fi + 1) =>
        LET f == b_op.factors[b_fi]
            mean == b_results'[f].avg_accuracy
            d == DenProduct(b_scores)
        IN  /\ Len(b_scores) = BN
            /\ \A k \in 1..BN : InUnit(b_scores[k])
            /\ DOMAIN b_results' = DOMAIN b_results \cup {f}
            /\ \A g \in DOMAIN b_results : g # f => b_results'[g] = b_results[g]
            /\ BN >= 1 => mean.num * d * BN = ScaledSum(b_scores, d) * mean.den

\* C15 as stated: for each factor in list order and each query in list order
\* the accuracy sweep issues one baseline query without rescoring parameters
\* and then one quantized query with rescoring and oversampling = f, 2*|F|*N
\* queries in all, and reports for f the mean of the N scores, a value in
\* [0, 1].
C15_MeanInUnitInterval ==
    [](C15_Queries)
        /\ [][C15_Report]_vars
        /\ []((IsAccuracySweep /\ Returned) =>
                \A f \in DOMAIN b_results : InUnit(b_results[f].avg_accuracy))

\* C15 amended: the same, the reported mean lying in [0, 1] when there is at
\* least one test query; with an empty test-query list the reported value is
\* the mean of no scores, which is not a number.
C15_MeanOfScores ==
    [](C15_Queries)
        /\ [][C15_Report]_vars
        /\ []((IsAccuracySweep /\ Returned) =>
                \A f \in DOMAIN b_results :
                    IF BN >= 1 THEN InUnit(b_results[f].avg_accuracy)
                    ELSE b_results[f].avg_accuracy = NanScore)

C15_Witness ==
    /\ IsAccuracySweep
    /\ Returned
    /\ BN = 2
    /\ b_op.factors = <<2, 3>>
    /\ Len(b_queries) = 8
    /\ b_results[2].avg_accuracy = [num |-> 3, den |-> 4]
    /\ b_results[3].avg_accuracy = [num |-> 1, den |-> 4]

IsLatencySweep == b_op.name = "tune_oversampling"

\* The queries of the latency sweep and the shape of its result.
C16_Queries ==
    IsLatencySweep =>
        /\ \A k \in 1..Len(b_queries) :
               \E fi \in 1..BF, qi \in 1..BN :
                   /\ k = SweepIndex(fi, qi, 1, 1)
                   /\ b_queries[k] = Query(b_op.collection_name,
                                           b_op.test_queries[qi], "None",
                                           RescoreParams(b_op.factors[fi]))
        /\ Returned =>
               /\ Len(b_queries) = BF * BN
               /\ DOMAIN b_results = Range(b_op.factors)
               /\ \A f \in DOMAIN b_results :
                      DOMAIN b_results[f] = {"avg_latency", "p95_latency"}

\* The result of a factor holds the average and the p95 of the N samples of
\* its group.
C16_Report ==
    (IsLatencySweep /\ b_fi' = b_fi + 1) =>
        LET f == b_op.factors[b_fi]
            entry == b_results'[f]
        IN  /\ Len(b_latencies) = BN
            /\ DOMAIN entry = {"avg_latency", "p95_latency"}
            /\ DOMAIN b_results' = DOMAIN b_results \cup {f}
            /\ \A g \in DOMAIN b_results : g # f => b_results'[g] = b_results[g]
            /\ BN >= 1 =>
                   /\ entry.avg_latency.sum = Sum(b_latencies)
                   /\ entry.avg_latency.n = BN
                   /\ entry.p95_latency = Percentile(b_latencies, 950)

\* C16: the latency sweep issues one query per test string per factor,
\* |F|*N in all, grouped by factor in list order, each with rescoring and the
\* oversampling of its group, and returns one result per factor of F holding
\* only the average and the p95 latency of that factor's N samples.
C16_LatencySweep == [](C16_Queries) /\ [][C16_Report]_vars

C16_Witness ==
    /\ IsLatencySweep
    /\ Returned
    /\ BN = 2
    /\ b_op.factors = <<3, 2>>
    /\ Len(b_queries) = 4
    /\ b_queries[1].search_params.oversampling = 3
    /\ b_queries[3].search_params.oversampling = 2
    /\ b_results[3].p95_latency # b_results[2].p95_latency

(***************************************************************************)
(* The collection manager: delete and get-info                             *)
(***************************************************************************)
IsGet(c) == c.call = "get_collection"
OthersUntouched(name) == \A n \in Names \ {name} : m_colls[n] = m_before[n]
\* The existence check itself raised: the only remote call of the operation.
ExistsCheckRaised == m_result = "RemoteError" /\ Len(m_log) = 1

\* C21: delete_collection on an absent collection issues no remote delete,
\* leaves the collections as they were and is not an error; on an existing
\* collection it issues exactly one delete call, for that name, and leaves
\* every other collection untouched.
C21_DeleteIfExists ==
    m_op.op = "delete_collection" =>
        LET name == m_op.name
            deletes == SelectSeq(m_log, IsDelete)
        IN  /\ OthersUntouched(name)
            /\ m_before[name] = Absent =>
                   /\ deletes = <<>>
                   /\ m_colls = m_before
                   /\ m_result = "ok" \/ ExistsCheckRaised
            /\ (m_before[name] # Absent /\ ~ExistsCheckRaised) =>
                   /\ deletes = <<DeleteCall(name)>>
                   /\ m_result = "ok" => m_colls[name] = Absent

\* Both cases in one run: a delete of an existing collection, then a delete
\* of the same name, now absent.
C21_Witness ==
    /\ m_op.op = "delete_collection"
    /\ m_prevop.op = "delete_collection"
    /\ m_prevop.name = m_op.name
    /\ m_prevop.result = "ok"
    /\ m_result = "ok"
    /\ m_log = <<ExistsCall(m_op.name)>>
    /\ \E n \in Names : m_colls[n] # Absent

FailedGetInfo(op) == op.op = "get_collection_info" /\ op.result = "ValueError"

\* get_collection_info on an absent collection.
C22_State ==
    (m_op.op = "get_collection_info" /\ m_before[m_op.name] = Absent) =>
        /\ SelectSeq(m_log, IsGet) = <<>>
        /\ m_colls = m_before
        /\ m_result = "ValueError" \/ ExistsCheckRaised

\* The operation after a failed get_collection_info starts from the
\* collections as they were before that call.
C22_Step == FailedGetInfo(m_op) => m_before' = m_before

\* C22: get_collection_info on an absent collection fails with a not-found
\* error, without the remote get-info call and without changing a collection;
\* the next operation on the manager finds the collections as they were
\* before the failed call.
C22_NotFoundConfined == [](C22_State) /\ [][C22_Step]_vars

C22_Witness ==
    /\ FailedGetInfo(m_prevop)
    /\ m_op.op = "create_standard_collection"
    /\ m_op.name = m_prevop.name
    /\ m_result = "ok"
    /\ m_before[m_op.name] = Absent
    /\ m_colls[m_op.name] = Layout("standard", "None")

(***************************************************************************)
(* Progress notifications                                                  *)
(***************************************************************************)
IsProgress(line) == line.kind = "progress"
ProgressLines == SelectSeq(progress, IsProgress)

\* C23: with progress reporting on, a failure-free upload of n points that
\* returned has emitted one progress notification for each multiple of 1000
\* the cumulative count reached or passed: floor(n / 1000) of them, for every
\* batch size.
C23_ProgressEveryThousand ==
    (pc = "returned" /\ show_progress /\ FailureFree) =>
        Len(ProgressLines) = N \div 1000

(***************************************************************************)
(* Failures of remote calls                                                *)
(***************************************************************************)
\* The failed upsert call number k is answered: by the next attempt on the
\* same batch, or, being the last call, by the exception leaving
\* upload_batch or by a retry that is due under the retry policy.
Answered(k) ==
    IF k < Len(calls)
    THEN /\ calls[k + 1].offset = calls[k].offset
         /\ calls[k + 1].points = calls[k].points
         /\ enable_retry /\ IsCaught(calls[k].outcome)
    ELSE \/ pc = "raised" /\ error = calls[k].outcome
         \/ /\ pc = "retry" /\ i = calls[k].offset
            /\ enable_retry /\ IsCaught(calls[k].outcome)
            /\ HasAttempt(attempt, max_retries)

\* Every batch counted as done was accepted by the last upsert call made
\* for it, and a returned count is the size of the corpus.
Resolved ==
    /\ \A d \in 1..Len(done) :
           LET cs == CallsOf(done[d].offset)
           IN  cs # <<>> /\ cs[Len(cs)].outcome = "ok"
    /\ pc = "returned" =>
           /\ result = N
           /\ calls # <<>> => calls[Len(calls)].outcome = "ok"

C24_State ==
    /\ \A k \in 1..Len(calls) : IsFailure(calls[k]) => Answered(k)
    /\ Resolved
    /\ (IsLatencyRun /\ b_error = "QueryError") =>
           /\ b_pc = "raised"
           /\ Len(b_queries) = Len(b_latencies) + WarmupCount + 1
                \/ (b_op.warmup_enabled /\ Len(b_queries) = 1 /\ b_latencies = <<>>)
           /\ b_reduced = <<>>
           /\ DOMAIN b_results = {}
    /\ (IsLatencyRun /\ Returned) => b_error = "None"

\* After the exception nothing more is issued.
C24_Step ==
    /\ b_pc = "raised" => b_queries' = b_queries /\ b_pc' = "raised"
    /\ pc = "raised" => calls' = calls /\ pc' = "raised"

\* C24: no remote failure is swallowed.  A failed upsert is followed by
\* another attempt on the same batch under the retry policy or makes
\* upload_batch raise that error, and upload_batch returns a count only when
\* every batch was accepted; a failed query makes measure_search_latency
\* raise, with no further query and no metric bundle.
C24_NoFailureSwallowed == [](C24_State) /\ [][C24_Step]_vars

\* The second measured query of a latency run failed.
C24_Witness ==
    /\ IsLatencyRun
    /\ b_pc = "raised"
    /\ b_error = "QueryError"
    /\ ~b_op.warmup_enabled
    /\ Len(b_queries) = 2
    /\ Len(b_latencies) = 1
    /\ BN = 3

(***************************************************************************)
(* Retry accounting                                                        *)
(***************************************************************************)
LastCall == calls[Len(calls)]

\* C25: retry and backoff accounting is per batch.  Whatever failed attempts
\* earlier batches consumed, a batch starts with its first attempt, its
\* attempt counter counts only its own failures, max_retries attempts are
\* available to it, and its first wait is initial_backoff * 1.
C25_PerBatchAccounting ==
    enable_retry =>
        /\ pc = "retry" =>
               /\ attempt = Len(Failed(CallsOf(i)))
               /\ Len(CallsOf(i)) = attempt
        /\ \A c \in 1..Len(calls) :
               /\ Len(CallsOf(calls[c].offset)) <= max_retries
               /\ SleepsOf(calls[c].offset) # <<>> =>
                      SleepsOf(calls[c].offset)[1].wait = initial_backoff * 1
        /\ (pc = "raised" /\ calls # <<>> /\ IsCaught(LastCall.outcome)) =>
               Len(CallsOf(LastCall.offset)) = max_retries

\* The first batch failed once, and the second batch still had all its
\* attempts: it failed twice, waited initial_backoff first, and was accepted
\* on the third and last attempt.
C25_Witness ==
    /\ enable_retry
    /\ max_retries = 3
    /\ initial_backoff = 2
    /\ batch_size = 1
    /\ Len(Failed(CallsOf(0))) = 1
    /\ Len(CallsOf(1)) = 3
    /\ Len(Failed(CallsOf(1))) = 2
    /\ SleepsOf(1)[1].wait = 2
    /\ pc = "returned"

(***************************************************************************)
(* Pass-through of the query parameters                                    *)
(***************************************************************************)
\* What a latency run issues, apart from using and search_params: the warmup
\* text if warmup is enabled, then the test queries, all to the collection
\* of the run.  It depends on the test queries and the warmup setting only.
ExpectedTexts ==
    (IF b_op.warmup_enabled THEN <<WarmupText>> ELSE <<>>) \o b_op.test_queries

\* C26: using and search_params do not alter the control flow of a latency
\* run.  Whatever they are, the queries issued so far are the first ones of
\* the same list (the warmup if enabled, then the test queries in order), to
\* the same collection, all of them in a run that returns; and every
\* measured query carries exactly the supplied using and search_params.
C26_ParametersPassThrough ==
    IsLatencyRun =>
        /\ Len(b_queries) <= Len(ExpectedTexts)
        /\ \A k \in 1..Len(b_queries) :
               /\ b_queries[k].query = ExpectedTexts[k]
               /\ b_queries[k].collection_name = b_op.collection_name
               /\ k > WarmupCount =>
                      /\ b_queries[k].using = b_op.using
                      /\ b_queries[k].search_params = b_op.search_params
        /\ b_pc = "measuring" => Len(b_queries) = WarmupCount + b_qi - 1
        /\ b_pc \in {"reducing", "done"} => Len(b_queries) = Len(ExpectedTexts)

C26_Witness ==
    /\ IsLatencyRun
    /\ Returned
    /\ b_op.warmup_enabled
    /\ b_op.using = "dense"
    /\ b_op.search_params = RescoreParams(DefaultOversampling)
    /\ BN = 2
    /\ Len(b_queries) = 3
    /\ b_queries[3].using = "dense"
    /\ b_queries[3].search_params = RescoreParams(DefaultOversampling)

(***************************************************************************)
(* Which failures are retried                                              *)
(***************************************************************************)
\* C27: with retry enabled, an upsert failure that is not a
\* ResponseHandlingException leaves upload_batch after that single attempt:
\* it is the last call, the error is the caller's, no wait follows it, and
\* neither that batch nor a later one is attempted.
C27_OnlyTransientRetried ==
    enable_retry =>
        \A k \in 1..Len(calls) :
            calls[k].outcome = "OtherError" =>
                /\ k = Len(calls)
                /\ pc = "raised"
                /\ error = "OtherError"
                /\ Len(SleepsOf(calls[k].offset))
                       = Len(Failed(CallsOf(calls[k].offset))) - 1
                /\ \A d \in 1..Len(done) : done[d].offset < calls[k].offset

\* The first attempt on the first of several batches fails that way, with
\* retries to spare.
C27_Witness ==
    /\ enable_retry
    /\ max_retries = 3
    /\ N = 3
    /\ batch_size = 1
    /\ Len(calls) = 1
    /\ calls[1].outcome = "OtherError"
    /\ sleeps = <<>>
    /\ pc = "raised"

(***************************************************************************)
(* Termination                                                             *)
(***************************************************************************)
AttemptsPerBatch == IF enable_retry THEN max_retries ELSE 1
Terminated == pc \in {"returned", "raised"}

C28_Bound == Len(calls) <= Ceil(N, batch_size) * AttemptsPerBatch

\* C28: every upload_batch invocation terminates, by returning or by
\* raising, whatever the remote service answers; it makes at most
\* ceil(n/B) * max_retries upsert attempts with retry enabled and at most
\* ceil(n/B) with retry disabled.
C28_Terminates == [](C28_Bound) /\ ((pc = "idle") ~> Terminated)

\* An upload that used every attempt it may make: each batch failed
\* max_retries - 1 times before it was accepted.
C28_Witness ==
    /\ enable_retry
    /\ max_retries = 3
    /\ N = 2
    /\ batch_size = 1
    /\ Len(calls) = 6
    /\ pc = "returned"

(***************************************************************************)
(* The fall-through of _upload_with_retry, and the backoff schedule        *)
(***************************************************************************)
\* C29: the trailing "return 0" of _upload_with_retry is never reached, for
\* any max_retries the configuration accepts, 0 included: a batch is counted
\* as done only after an upsert call accepted its points, and upload_batch
\* returns only when every batch was accepted.
C29_ReturnZeroUnreachable ==
    /\ \A d \in 1..Len(done) :
           LET cs == CallsOf(done[d].offset)
           IN  /\ cs # <<>>
               /\ cs[Len(cs)].outcome = "ok"
               /\ done[d].uploaded = Len(cs[Len(cs)].points)
    /\ pc = "returned" => result = N

====
